---------------------------- MODULE Spec2Model ----------------------------
(***************************************************************************)
(* A model of the tile downloader: the Spherical Mercator tile arithmetic  *)
(* of globalmaptiles.py, the planning and dispatch walk of GUI.download    *)
(* (DownLoadStreetMapTool.py) and the fetch task of download.py.           *)
(*                                                                         *)
(* Numbers.  The Python code computes in IEEE doubles.  Here a length in   *)
(* "metres" is an integer number of units chosen so that originShift is    *)
(* 18000 units (one unit is a hundredth of a Mercator degree), and a pixel *)
(* coordinate is an exact fraction <<n, d>> with d > 0.  Every point the   *)
(* model uses is exactly representable, and for those points the doubles   *)
(* give the same tiles (the divisions by powers of two are exact).         *)
(*                                                                         *)
(* Strings.  A Python str is a sequence of one-character strings where its *)
(* characters matter (the quadkey); a file path is the sequence of its     *)
(* '/'-separated components.                                               *)
(***************************************************************************)
EXTENDS Integers, Sequences, FiniteSets, Bags, TLC

\* ------------------------------------------------------------- bounds
\* Zoom levels offered are 0..MaxZoom (the form offers 0..19).
MaxZoom == 2
\* A run enumerates at most MaxTiles tiles.
MaxTiles == 2
\* The start button is pressed at most MaxRuns times.
MaxRuns == 2
\* The broker delivers at most MaxDeliveries messages to the workers in all.
MaxDeliveries == 2

\* ---------------------------------------------------- exact fractions
\* ceil(n/d) for d > 0 (math.ceil of a quotient)
CeilDiv(n, d) == -((-n) \div d)

\* ------------------------------------------ GlobalMercator (globalmaptiles.py)
tileSize == 256

\* 2 * math.pi * 6378137 / 2.0, in model units
originShift == 18000

\* 2 * math.pi * 6378137 / self.tileSize = 2 * originShift / tileSize, a fraction
initialResolution == <<2 * originShift, tileSize>>

\* math.log(math.tan((90 + lat) * math.pi / 360.0)) / (math.pi / 180.0), in
\* hundredths of a degree, for the latitudes the model uses
LogTanDeg(lat) ==
    CASE lat = 0  -> 0
      [] lat = 20 -> 2042
      [] lat = 26 -> 2694

LatLonToMeters(lat, lon) ==
    LET mx == (lon * originShift) \div 180
        my == (LogTanDeg(lat) * originShift) \div 18000
    IN  <<mx, my>>

\* self.initialResolution / (2**zoom)
Resolution(zoom) == <<initialResolution[1], initialResolution[2] * (2 ^ zoom)>>

\* (m + originShift) / res per axis: a fraction <<n, d>>
MetersToPixels(mx, my, zoom) ==
    LET res == Resolution(zoom)
        px == <<(mx + originShift) * res[2], res[1]>>
        py == <<(my + originShift) * res[2], res[1]>>
    IN  <<px, py>>

\* int(math.ceil(p / float(self.tileSize)) - 1) per axis; px and py are fractions
PixelsToTileFloor(px, py) ==
    <<px[1] \div (px[2] * tileSize), py[1] \div (py[2] * tileSize)>>

PixelsToTile(px, py) ==
    LET tx == CeilDiv(px[1], px[2] * tileSize) - 1
        ty == CeilDiv(py[1], py[2] * tileSize) - 1
    IN  <<tx, ty>>

MetersToTile(mx, my, zoom) ==
    LET p == MetersToPixels(mx, my, zoom)
    IN  PixelsToTile(p[1], p[2])

GoogleTile(tx, ty, zoom) == <<tx, ((2 ^ zoom) - 1) - ty>>

\* str(digit) for a digit 0..3
Str(digit) == ToString(digit)

\* (t & mask) != 0 for a mask that is a power of two (Python integers: two's
\* complement of unbounded width, which is floor division for negative t)
BitSet(t, mask) == (t \div mask) % 2 = 1

QuadDigitSwapped(tx, fy, mask) ==
    (IF BitSet(tx, mask) THEN 2 ELSE 0) + (IF BitSet(fy, mask) THEN 1 ELSE 0)

\* the body of the loop of QuadTree: the digit of level i
QuadDigit(tx, fy, mask) ==
    (IF BitSet(tx, mask) THEN 1 ELSE 0) + (IF BitSet(fy, mask) THEN 2 ELSE 0)

\* for i in range(zoom, 0, -1), from level i down, with ty already flipped
RECURSIVE QuadLoop(_, _, _)
QuadLoop(tx, fy, i) ==
    IF i <= 0 THEN <<>>
    ELSE <<Str(QuadDigit(tx, fy, 2 ^ (i - 1)))>> \o QuadLoop(tx, fy, i - 1)

QuadTree(tx, ty, zoom) == QuadLoop(tx, ((2 ^ zoom) - 1) - ty, zoom)


\* ------------------------------------------------------------ the form
\* The corners and zoom range the entries hold after construction
\* (DownLoadStreetMapTool.py lines 32-53, 71-73).
DefaultBox == <<26, 109, 20, 118>>
DefaultLevelStart == 2
DefaultLevelEnd == 18

\* The boxes <<ltlat, ltlon, rblat, rblon>> the user may type: the default one,
\* one two tiles wide and one two tiles tall at zoom 2, and one whose right
\* bottom corner lies west of its left top corner.
Boxes ==
    { DefaultBox, <<26, 80, 20, 118>>, <<26, 109, 0, 109>>, <<26, 118, 20, -10>> }

\* OptionMenu(..., *range(0, 20)), cut at MaxZoom
Levels == 0 .. MaxZoom

\* tkFileDialog.askdirectory: the folder the user picks, as path components
Folders == { <<"data">> }

VARIABLES
    dir,            \* self.dir: <<>> while the attribute is not set, else <<folder>>
    box, ls, ln,    \* the entries: the box and mapLevelStart, mapLevelEnd
    pc,             \* where the download thread is: "idle" when there is none
    run,            \* how many times the start button was pressed
    plan, total,    \* the level lines logged by the planning pass, and total
    count,          \* count
    i, j, k,        \* the loop variables of the dispatch walk
    x, y, xe, ye,   \* the rectangle of level i
    error,          \* the exception that ended the thread, "none" if none
    lastLog,        \* the last line the download thread logged, "none" if none
    dirs,           \* the directories that exist
    files,          \* the files that exist: path -> "partial" | "complete"
    queue,          \* the broker: the bag of the messages, each a file_name
    running,        \* the task executions that hold their file open: a bag of file_name
    deliveries,     \* how many messages the broker has delivered to a worker
    redelivered,    \* whether one of these deliveries left its message in the broker
    notices,        \* how many completion notices the log holds
    delayed,        \* the file_name of every download.delay call of this run
    coveredAtStart, \* history: every tile of this run had its file when it started
    call            \* the last call of a GlobalMercator method, with its result

formVars == <<dir, box, ls, ln>>
threadVars == <<pc, run, plan, total, count, i, j, k, x, y, xe, ye, error, lastLog>>
fsVars == <<dirs, files>>
poolVars == <<queue, running, deliveries, redelivered>>
vars == <<formVars, threadVars, fsVars, poolVars, delayed, coveredAtStart, notices, call>>

\* ------------------------------------------------- GUI (DownLoadStreetMapTool.py)
LatLon2GoogleTile(lat, lon, zoom) ==
    LET m == LatLonToMeters(lat, lon)
        t == MetersToTile(m[1], m[2], zoom)
    IN  GoogleTile(t[1], t[2], zoom)

\* x, y = LatLon2GoogleTile(ltlat, ltlon, i); xe, ye = LatLon2GoogleTile(rblat, rblon, i)
LevelRect(b, lev) ==
    LET tl == LatLon2GoogleTile(b[1], b[2], lev)
        br == LatLon2GoogleTile(b[3], b[4], lev)
    IN  [x |-> tl[1], y |-> tl[2], xe |-> br[1], ye |-> br[2]]

\* s = (xe - x + 1) * (ye - y + 1)
TileCount(r) == (r.xe - r.x + 1) * (r.ye - r.y + 1)

\* one pass of the planning loop: the line logged for level lev
PlanLine(b, lev) ==
    LET r == LevelRect(b, lev)
    IN  [level |-> lev, x |-> r.x, y |-> r.y, xe |-> r.xe, ye |-> r.ye,
         s |-> TileCount(r)]

\* for i in range(ls, ln + 1): the lines logged, in order
PlanLines(b, lo, hi) ==
    [n \in 1 .. (IF hi >= lo THEN hi - lo + 1 ELSE 0) |-> PlanLine(b, lo + n - 1)]

\* total += s over the lines
RECURSIVE SumS(_)
SumS(lines) ==
    IF lines = <<>> THEN 0 ELSE lines[1].s + SumS(Tail(lines))

\* froot = self.dir + '/map'
Froot(d) == Append(d, "map")
\* flev = froot + '/' + str(i)
Flev(d, lev) == Append(Froot(d), ToString(lev))
\* fx = flev + '/' + str(j)
Fx(d, lev, tx) == Append(Flev(d, lev), ToString(tx))
FileNameNoY(d, lev, tx, ty) == Append(Fx(d, lev, tx), ".png")
\* file_name = fx + '/' + str(k) + '.png'
FileName(d, lev, tx, ty) == Append(Fx(d, lev, tx), ToString(ty) \o ".png")

\* the tiles the dispatch walk visits: range(ls, ln+1), range(x, xe+1), range(y, ye+1)
WalkTiles(b, lo, hi) ==
    UNION { LET r == LevelRect(b, lev)
            IN  {<<lev, tx, ty>> : tx \in r.x .. r.xe, ty \in r.y .. r.ye}
          : lev \in lo .. hi }

WalkFiles(d, b, lo, hi) ==
    { FileName(d, t[1], t[2], t[3]) : t \in WalkTiles(b, lo, hi) }

\* ------------------------------------------------------------- states
NoCall == [op |-> "none"]

\* The state after construction (GUI.__init__), the file system empty, the broker
\* empty, and the entries as the user left them before the first run.
InitRest ==
    /\ dir = <<>>
    /\ pc = "idle" /\ run = 0
    /\ plan = <<>> /\ total = 0 /\ count = 0
    /\ i = 0 /\ j = 0 /\ k = 0
    /\ x = 0 /\ y = 0 /\ xe = 0 /\ ye = 0
    /\ error = "none" /\ lastLog = "none"
    /\ dirs = {} /\ files = <<>>
    /\ queue = EmptyBag /\ running = EmptyBag /\ deliveries = 0 /\ redelivered = FALSE
    /\ notices = 0
    /\ delayed = <<>> /\ coveredAtStart = FALSE
    /\ call = NoCall

Init ==
    /\ box \in Boxes
    /\ ls \in Levels /\ ln \in Levels
    /\ Cardinality(WalkTiles(box, ls, ln)) <= MaxTiles
    /\ InitRest

\* os.mkdir(path) if os.path.exists(path) == False: the directory is there
\* afterwards, or os.mkdir raised OSError
\* MkdirOk, but the directory is not made
MkdirMissing(path) == dirs' = dirs

MkdirOk(path) == dirs' = dirs \cup {path}

Raise(exc) ==
    /\ pc' = "crashed" /\ error' = exc
    /\ UNCHANGED <<run, plan, total, count, i, j, k, x, y, xe, ye>>

\* ------------------------------------------------------------ the form
\* selectSaveFolder
SelectSaveFolder ==
    /\ \E f \in Folders : dir' = <<f>>
    /\ UNCHANGED <<box, ls, ln, threadVars, fsVars, poolVars, delayed,
                   coveredAtStart, notices, call>>

\* doDownload: thread.start_new_thread(self.download, ()).  The model starts a
\* run only when no download thread is alive.
DoDownload ==
    /\ pc = "idle"
    /\ run < MaxRuns
    /\ run' = run + 1
    /\ pc' = "plan"
    /\ UNCHANGED <<plan, total, count, i, j, k, x, y, xe, ye, error, lastLog, delayed>>
    /\ coveredAtStart' =
          (dir # <<>> /\ WalkFiles(dir[1], box, ls, ln) \subseteq DOMAIN files)
    /\ UNCHANGED <<formVars, fsVars, poolVars, notices, call>>

\* self.log(msg) appends a line to the message box.  lastLog names the kind of
\* the last line the thread appended: "total" (line 148), "mkroot" (155),
\* "mklevel" (168), "mkx" (178), "url" (188), "done" (193).  download has no
\* try/except, so no line is appended once an exception is raised.

\* ------------------------------------------------- download: lines 133-148
\* Planning, but nothing is computed or logged before the walk starts
PlanningSkipped ==
    /\ pc = "plan"
    /\ pc' = "root"
    /\ UNCHANGED <<run, plan, total, count, i, j, k, x, y, xe, ye, error, lastLog>>
    /\ UNCHANGED <<formVars, fsVars, poolVars, delayed, coveredAtStart, notices, call>>

Planning ==
    /\ pc = "plan"
    /\ plan' = PlanLines(box, ls, ln)
    /\ total' = SumS(plan')
    /\ lastLog' = "total"
    /\ pc' = "root"
    /\ UNCHANGED <<run, count, i, j, k, x, y, xe, ye, error>>
    /\ UNCHANGED <<formVars, fsVars, poolVars, delayed, coveredAtStart, notices, call>>

\* lines 153-160: froot, its directory, count = 0
MakeRoot ==
    /\ pc = "root"
    /\ \/ /\ dir = <<>>
          /\ Raise("AttributeError")
          /\ UNCHANGED <<dirs, lastLog>>
       \/ /\ dir # <<>>
          /\ lastLog' = "mkroot"
          /\ \/ /\ Froot(dir[1]) \in dirs
                /\ UNCHANGED dirs
             \/ /\ Froot(dir[1]) \notin dirs
                /\ MkdirOk(Froot(dir[1]))
          /\ count' = 0 /\ i' = ls /\ pc' = "level"
          /\ UNCHANGED <<run, plan, total, j, k, x, y, xe, ye, error>>
       \/ /\ dir # <<>>
          /\ lastLog' = "mkroot"
          /\ Froot(dir[1]) \notin dirs
          /\ Raise("OSError")
          /\ UNCHANGED dirs
    /\ UNCHANGED <<formVars, files, poolVars, delayed, coveredAtStart, notices, call>>

\* lines 163-171: the head of the level loop, the level's directory and
\* rectangle; after the last level, lines 193-194: the completion notice
Level ==
    /\ pc = "level"
    /\ \/ /\ i > ln
          /\ pc' = "done"
          /\ notices' = notices + 1
          /\ lastLog' = "done"
          /\ UNCHANGED <<run, plan, total, count, i, j, k, x, y, xe, ye, error, dirs>>
       \/ /\ i <= ln
          /\ \/ /\ Flev(dir[1], i) \in dirs
                /\ UNCHANGED dirs
             \/ /\ Flev(dir[1], i) \notin dirs
                /\ MkdirOk(Flev(dir[1], i))
          /\ lastLog' = "mklevel"
          /\ LET r == LevelRect(box, i)
             IN  /\ x' = r.x /\ y' = r.y /\ xe' = r.xe /\ ye' = r.ye
                 /\ j' = r.x
          /\ pc' = "xdir"
          /\ UNCHANGED <<run, plan, total, count, i, k, error, notices>>
       \/ /\ i <= ln
          /\ Flev(dir[1], i) \notin dirs
          /\ Raise("OSError")
          /\ UNCHANGED <<dirs, notices, lastLog>>
    /\ UNCHANGED <<formVars, files, poolVars, delayed, coveredAtStart, call>>

\* lines 174-178: the head of the x loop and the column's directory
XDir ==
    /\ pc = "xdir"
    /\ \/ /\ j > xe
          /\ i' = i + 1
          /\ pc' = "level"
          /\ UNCHANGED <<run, plan, total, count, j, k, x, y, xe, ye, error, dirs, lastLog>>
       \/ /\ j <= xe
          /\ \/ /\ Fx(dir[1], i, j) \in dirs
                /\ UNCHANGED dirs
             \/ /\ Fx(dir[1], i, j) \notin dirs
                /\ MkdirOk(Fx(dir[1], i, j))
          /\ lastLog' = "mkx"
          /\ k' = y
          /\ pc' = "tile"
          /\ UNCHANGED <<run, plan, total, count, i, j, x, y, xe, ye, error>>
       \/ /\ j <= xe
          /\ Fx(dir[1], i, j) \notin dirs
          /\ Raise("OSError")
          /\ UNCHANGED <<dirs, lastLog>>
    /\ UNCHANGED <<formVars, files, poolVars, delayed, coveredAtStart, notices, call>>

SubmitAlways(file_name) == TRUE

SubmitNever(file_name) == FALSE

\* os.path.exists(file_name) is False: the tile is submitted
Submit(file_name) == file_name \notin DOMAIN files

\* Tile, but a tile is taken up only once the broker holds no message
TileBlocking ==
    /\ pc = "tile"
    /\ \/ /\ k > ye
          /\ j' = j + 1
          /\ pc' = "xdir"
          /\ UNCHANGED <<count, k, queue, delayed, lastLog>>
       \/ /\ k <= ye
          /\ queue = EmptyBag
          /\ LET file_name == FileName(dir[1], i, j, k)
             IN  \/ /\ ~Submit(file_name)
                    /\ UNCHANGED <<queue, delayed, lastLog>>
                 \/ /\ Submit(file_name)
                    /\ lastLog' = "url"
                    /\ queue' = queue (+) SetToBag({file_name})
                    /\ delayed' = Append(delayed, file_name)
          /\ count' = count + 1
          /\ k' = k + 1
          /\ UNCHANGED <<j, pc>>
    /\ UNCHANGED <<run, plan, total, i, x, y, xe, ye, error>>
    /\ UNCHANGED <<formVars, fsVars, running, deliveries, redelivered, coveredAtStart,
                   notices, call>>

\* lines 179-191: the head of the y loop and one tile
Tile ==
    /\ pc = "tile"
    /\ \/ /\ k > ye
          /\ j' = j + 1
          /\ pc' = "xdir"
          /\ UNCHANGED <<count, k, queue, delayed, lastLog>>
       \/ /\ k <= ye
          /\ LET file_name == FileName(dir[1], i, j, k)
             IN  \/ /\ ~Submit(file_name)
                    /\ UNCHANGED <<queue, delayed, lastLog>>
                 \/ /\ Submit(file_name)
                    /\ lastLog' = "url"
                    /\ queue' = queue (+) SetToBag({file_name})
                    /\ delayed' = Append(delayed, file_name)
          /\ count' = count + 1
          /\ k' = k + 1
          /\ UNCHANGED <<j, pc>>
    /\ UNCHANGED <<run, plan, total, i, x, y, xe, ye, error>>
    /\ UNCHANGED <<formVars, fsVars, running, deliveries, redelivered, coveredAtStart,
                   notices, call>>

\* line 194, thread.exit_thread(), or the uncaught exception: the thread ends
\* and its frame is gone
ThreadExit ==
    /\ pc \in {"done", "crashed"}
    /\ pc' = "idle"
    /\ plan' = <<>> /\ total' = 0 /\ count' = 0
    /\ i' = 0 /\ j' = 0 /\ k' = 0
    /\ x' = 0 /\ y' = 0 /\ xe' = 0 /\ ye' = 0
    /\ error' = "none" /\ lastLog' = "none"
    /\ delayed' = <<>>
    /\ coveredAtStart' = FALSE
    /\ UNCHANGED <<run, formVars, fsVars, poolVars, notices, call>>

Dispatcher == Planning \/ MakeRoot \/ Level \/ XDir \/ Tile \/ ThreadExit

\* ------------------------------------------- the broker and download.py
\* download.delay(file_name, url) puts one message in the broker.  The url
\* (DOWNURL % (random.choice('abc'), i, j, k)) names the tile on one of three
\* mirrors; the fetch below may fail or succeed whatever the url is, so a
\* message is its file_name.

\* The broker delivers message m to a worker and drops it (acknowledged), or
\* keeps it and will deliver it again (at least once).
Take(m) ==
    /\ deliveries < MaxDeliveries
    /\ deliveries' = deliveries + 1
    /\ \/ /\ queue' = queue (-) SetToBag({m})
          /\ UNCHANGED redelivered
       \/ /\ redelivered' = TRUE
          /\ UNCHANGED queue

\* FetchFail, but the file is opened before the request is made
FetchFailLeavesFile ==
    /\ \E m \in BagToSet(queue) :
        /\ Take(m)
        /\ files' = (m :> "partial") @@ files
    /\ UNCHANGED <<formVars, threadVars, dirs, running, delayed,
                   coveredAtStart, notices, call>>

\* download, lines 11-13: urlopen or read raises; the execution ends and no
\* file is touched
FetchFail ==
    /\ \E m \in BagToSet(queue) : Take(m)
    /\ UNCHANGED <<formVars, threadVars, fsVars, running, delayed,
                   coveredAtStart, notices, call>>

\* open(file_name, "wb"): the file is created, or truncated if it exists
Open(file_name) == (file_name :> "partial") @@ files

\* download, lines 11-14: the body is read and the file opened (IOError if its
\* directory is missing)
FetchOpen ==
    /\ \E m \in BagToSet(queue) :
        /\ Take(m)
        /\ IF SubSeq(m, 1, Len(m) - 1) \in dirs
           THEN /\ files' = Open(m)
                /\ running' = running (+) SetToBag({m})
           ELSE UNCHANGED <<files, running>>
    /\ UNCHANGED <<formVars, threadVars, dirs, delayed, coveredAtStart, notices, call>>

\* download, lines 15-16: the body is written and the file closed
Write ==
    /\ \E m \in BagToSet(running) :
        /\ files' = [files EXCEPT ![m] = "complete"]
        /\ running' = running (-) SetToBag({m})
    /\ UNCHANGED <<formVars, threadVars, dirs, queue, deliveries, redelivered, delayed,
                   coveredAtStart, notices, call>>

\* download, line 15 raises (the disk is full, the worker is killed): the
\* execution ends and the file stays as it is
WriteFail ==
    /\ \E m \in BagToSet(running) : running' = running (-) SetToBag({m})
    /\ UNCHANGED <<formVars, threadVars, fsVars, queue, deliveries, redelivered, delayed,
                   coveredAtStart, notices, call>>

Worker == FetchFail \/ FetchOpen \/ Write \/ WriteFail

Next == SelectSaveFolder \/ DoDownload \/ Dispatcher \/ Worker

Spec == Init /\ [][Next]_vars

\* The download thread runs on until it ends; nothing is assumed of the workers.
FairSpec == Spec /\ WF_vars(Dispatcher)

\* --------------------------------------- the tile arithmetic on its own
\* The GlobalMercator methods called on bounded arguments, the form as
\* constructed and no run started.  A call is [op, args, ret].
InitMath ==
    /\ box = DefaultBox
    /\ ls = DefaultLevelStart /\ ln = DefaultLevelEnd
    /\ InitRest

\* the projected coordinates tried: the corners, the centre and the quarter
\* points of the extent
MeterGrid == { (n * originShift) \div 4 : n \in -4 .. 4 }

\* everything but call
restVars ==
    <<formVars, threadVars, fsVars, poolVars, delayed, coveredAtStart, notices>>

\* Each action makes the one call of its behaviour and keeps the result.
CallPixelsToTile ==
    /\ call = NoCall
    /\ \E zoom \in 0 .. MaxZoom :
         \E px \in 0 .. tileSize * (2 ^ zoom) :
           \E py \in {0, px} :
             call' = [op |-> "PixelsToTile", args |-> <<px, py>>,
                      ret |-> PixelsToTile(<<px, 1>>, <<py, 1>>)]
    /\ UNCHANGED restVars

CallMetersToTile ==
    /\ call = NoCall
    /\ \E zoom \in 0 .. MaxZoom :
         \E mx \in MeterGrid, my \in MeterGrid :
           call' = [op |-> "MetersToTile", args |-> <<mx, my, zoom>>,
                    ret |-> MetersToTile(mx, my, zoom)]
    /\ UNCHANGED restVars

CallGoogleTile ==
    /\ call = NoCall
    /\ \E zoom \in 0 .. MaxZoom :
         \E tx \in -1 .. (2 ^ zoom), ty \in -1 .. (2 ^ zoom) :
           call' = [op |-> "GoogleTile", args |-> <<tx, ty, zoom>>,
                    ret |-> GoogleTile(tx, ty, zoom)]
    /\ UNCHANGED restVars

CallQuadTree ==
    /\ call = NoCall
    /\ \E zoom \in 0 .. MaxZoom :
         \E tx \in -1 .. (2 ^ zoom), ty \in -1 .. (2 ^ zoom) :
           call' = [op |-> "QuadTree", args |-> <<tx, ty, zoom>>,
                    ret |-> QuadTree(tx, ty, zoom)]
    /\ UNCHANGED restVars

NextMath == CallPixelsToTile \/ CallMetersToTile \/ CallGoogleTile \/ CallQuadTree

SpecMath == InitMath /\ [][NextMath]_vars

\* ===================================================================
\* The claims
\* ===================================================================
Pow2(n) == 2 ^ n

\* the download thread is alive and has not ended
Running == pc \in {"plan", "root", "level", "xdir", "tile"}

\* the elements of a sequence
Range(seq) == { seq[n] : n \in DOMAIN seq }

\* the file the dispatch walk is at (pc = "tile", k <= ye)
AtFile == FileName(dir[1], i, j, k)

\* min and max of two integers
Lesser(a, b) == IF a <= b THEN a ELSE b

Greater(a, b) == IF a >= b THEN a ELSE b

\* a step of the walk that takes up one tile
TileStep == pc = "tile" /\ count' = count + 1

\* ------------------------------------------------------------------ C1
\* C1 as stated: a second run that follows a completed first run (same box,
\* zoom range and folder, no file deleted) submits no job.
C1_SecondRunSubmitsNothing ==
    (run = 2 /\ Running /\ notices = 1) => delayed = <<>>

\* C1, amended: a run that is not the first submits no job when every tile's
\* file already existed as it started (every job of the earlier run has been
\* executed and has created its file).
C1_NoJobWhenCovered ==
    (run >= 2 /\ coveredAtStart) => delayed = <<>>

\* a second run has walked over at least one tile, all covered, and is done
C1_Witness ==
    run = 2 /\ coveredAtStart /\ pc = "done" /\ count > 0 /\ delayed = <<>>

\* ------------------------------------------------------------------ C2
\* C2: in every step that takes up a tile, a job is submitted for it if and
\* only if its file does not exist at that moment: an existing file leaves the
\* broker untouched, a missing one adds exactly one message, for a file not
\* submitted before in this run; and no other step of a run submits anything.
C2_SubmitIffAbsent ==
    [][ /\ TileStep =>
            IF AtFile \in DOMAIN files
            THEN delayed' = delayed /\ queue' = queue
            ELSE /\ delayed' = Append(delayed, AtFile)
                 /\ queue' = queue (+) SetToBag({AtFile})
                 /\ AtFile \notin Range(delayed)
        /\ (Len(delayed') > Len(delayed)) => TileStep
      ]_vars

\* a run has skipped one tile and submitted another
C2_Witness ==
    Running /\ Len(delayed) > 0 /\ count > Len(delayed)

\* ------------------------------------------------------------------ C3
\* C3 as stated: while only one run has been started, no two executions hold
\* the same file open for writing.
C3_SingleWriter ==
    run <= 1 => \A m \in BagToSet(running) : CopiesIn(m, running) <= 1

\* C3, amended: the tiles a run is about to walk have pairwise distinct paths
\* and a run submits each path at most once, so while only one run has been started the
\* broker never holds two messages for a path, and two executions write the same
\* path at the same time only if the broker has delivered a message again.
C3_SingleWriterUnlessRedelivered ==
    /\ pc = "root" =>
         \A t1, t2 \in WalkTiles(box, ls, ln) :
           \A f \in Folders :
             (FileName(f, t1[1], t1[2], t1[3]) = FileName(f, t2[1], t2[2], t2[3]))
                => t1 = t2
    /\ \A a, b \in DOMAIN delayed : delayed[a] = delayed[b] => a = b
    /\ run <= 1 =>
         /\ \A m \in BagToSet(queue) : CopiesIn(m, queue) <= 1
         /\ ~redelivered =>
              \A m \in BagToSet(running) : CopiesIn(m, running) <= 1

\* two executions of one run write two files at the same time
C3_Witness ==
    run = 1 /\ ~redelivered /\ BagCardinality(running) = 2

\* ------------------------------------------------------------------ C4
\* C4 as stated: the counter is never negative while the thread runs, and
\* when the run reaches DONE it equals the total of the planning pass.
C4_CountReachesTotal ==
    /\ Running => count >= 0
    /\ pc = "done" => count = total

\* ------------------------------------------------------------------ C5
\* C5 as stated: every planned level has xMax >= xMin, yMax >= yMin and a
\* positive tile count, equal to the number of tiles walked at that level, and
\* its rectangle is [min(x0,x1)..max(x0,x1)] x [min(y0,y1)..max(y0,y1)].
C5_PlanRectangles ==
    \A n \in DOMAIN plan :
      LET p == plan[n]
          walked == { t \in WalkTiles(box, ls, ln) : t[1] = p.level }
          c0 == LatLon2GoogleTile(box[1], box[2], p.level)
          c1 == LatLon2GoogleTile(box[3], box[4], p.level)
      IN  /\ p.x = Lesser(c0[1], c1[1]) /\ p.xe = Greater(c0[1], c1[1])
          /\ p.y = Lesser(c0[2], c1[2]) /\ p.ye = Greater(c0[2], c1[2])
          /\ p.xe >= p.x /\ p.ye >= p.y
          /\ p.s > 0
          /\ p.s = Cardinality(walked)

\* ------------------------------------------------------------------ C6
\* C6 as stated: every started run reaches DONE.
C6_AlwaysDone == (pc = "plan") ~> (pc = "done")

\* C6, amended: every started run reaches DONE or is ended by an exception
\* (self.dir not set, os.mkdir failing), whatever the workers do or do not do.
C6_DoneOrRaised == (pc = "plan") ~> (pc = "done" \/ pc = "crashed")

\* a run is done and none of its jobs has been delivered
C6_Witness ==
    pc = "done" /\ error = "none" /\ Len(delayed) > 0 /\ deliveries = 0

\* ------------------------------------------------------------------ C7
\* C7 as stated: a tile is passed over only if its file was completely
\* written.
C7_SkippedOnlyIfComplete ==
    [][ (TileStep /\ delayed' = delayed) => files[AtFile] = "complete" ]_vars

\* C7, amended: an execution whose request or read fails leaves every file as
\* it was; a tile is passed over exactly when its file exists, whether
\* completely or partially written; and when a run is done every tile of it
\* either has a file or has been submitted by this run.
C7_GapsResubmitted ==
    /\ [][ (deliveries' = deliveries + 1 /\ running' = running) => files' = files ]_vars
    /\ [][ (TileStep /\ delayed' = delayed) => AtFile \in DOMAIN files ]_vars
    /\ [](pc = "done" =>
            \A f \in WalkFiles(dir[1], box, ls, ln) :
               f \in DOMAIN files \/ f \in Range(delayed))

\* a second run has submitted again a tile whose only delivery failed
C7_Witness ==
    /\ run = 2 /\ Len(delayed) > 0
    /\ deliveries = 1 /\ ~redelivered
    /\ files = <<>> /\ running = EmptyBag
    /\ CopiesIn(delayed[1], queue) = 1

\* ------------------------------------------------------------------ C8
\* the digit a quadkey character stands for
DigitOf(c) == CASE c = "0" -> 0 [] c = "1" -> 1 [] c = "2" -> 2 [] c = "3" -> 3

\* base-4 parse of a quadkey, most significant digit first: bit 0 of a digit
\* is the bit of x, bit 1 the bit of y
RECURSIVE ParseQuadKey(_)
ParseQuadKey(key) ==
    IF key = <<>> THEN <<0, 0>>
    ELSE LET rest == ParseQuadKey(SubSeq(key, 1, Len(key) - 1))
             d == DigitOf(key[Len(key)])
         IN  <<2 * rest[1] + (d % 2), 2 * rest[2] + (d \div 2)>>

\* C8: for 0 <= tx, ty < 2^zoom the quadkey has exactly zoom characters, each
\* a digit 0..3, and parses back to (tx, 2^zoom - 1 - ty).
C8_QuadKeyRoundTrip ==
    (call.op = "QuadTree"
        /\ call.args[1] \in 0 .. Pow2(call.args[3]) - 1
        /\ call.args[2] \in 0 .. Pow2(call.args[3]) - 1)
    => /\ Len(call.ret) = call.args[3]
       /\ \A n \in DOMAIN call.ret : call.ret[n] \in {"0", "1", "2", "3"}
       /\ ParseQuadKey(call.ret)
            = <<call.args[1], Pow2(call.args[3]) - 1 - call.args[2]>>

\* QuadTree(1, 0, 2) was called and returned "23"
C8_Witness ==
    call.op = "QuadTree" /\ call.args = <<1, 0, 2>> /\ call.ret = <<"2", "3">>

\* ------------------------------------------------------------------ C9
\* C9 as stated: per axis the tile is ceil(p / tileSize) - 1; pixel 0 maps to
\* tile 0, a boundary pixel k * tileSize (k >= 1) to tile k - 1, and a pixel
\* of [0, tileSize << zoom] to a tile of 0 .. 2^zoom - 1.
C9_PixelsToTileInPyramid ==
    call.op = "PixelsToTile" =>
      \A a \in 1 .. 2 :
        LET p == call.args[a]
            t == call.ret[a]
        IN  /\ t = CeilDiv(p, tileSize) - 1
            /\ p = 0 => t = 0
            /\ (p > 0 /\ p % tileSize = 0) => t = (p \div tileSize) - 1
            /\ \A zoom \in 0 .. MaxZoom :
                 p \in 0 .. tileSize * Pow2(zoom) => t \in 0 .. Pow2(zoom) - 1

\* ----------------------------------------------------------------- C10
\* C10 as stated: MetersToTile(0, 0, 1) is (1, 1) and GoogleTile(1, 1, 1) is
\* (1, 0).
C10_CentreIsTileOneOne ==
    /\ (call.op = "MetersToTile" /\ call.args = <<0, 0, 1>>) => call.ret = <<1, 1>>
    /\ (call.op = "GoogleTile" /\ call.args = <<1, 1, 1>>) => call.ret = <<1, 0>>

\* C10, amended: MetersToTile(0, 0, 1) is (0, 0), the tile below and left of
\* the shared corner, and GoogleTile(1, 1, 1) is (1, 0).
C10_CentreIsTileZeroZero ==
    /\ (call.op = "MetersToTile" /\ call.args = <<0, 0, 1>>) => call.ret = <<0, 0>>
    /\ (call.op = "GoogleTile" /\ call.args = <<1, 1, 1>>) => call.ret = <<1, 0>>

\* MetersToTile(0, 0, 1) was called
C10_Witness == call.op = "MetersToTile" /\ call.args = <<0, 0, 1>>

\* ----------------------------------------------------------------- C11
\* C11 as stated: in the plan of a box, the tile count logged for a zoom level
\* is at least the tile count logged for the level before it.
C11_CoverageMonotone ==
    \A n \in DOMAIN plan :
      (n + 1) \in DOMAIN plan => plan[n + 1].s >= plan[n].s

\* ----------------------------------------------------------------- C12
\* where a run is: 1 planning, 2 enumerating and dispatching, 3 ended
Phase(p) ==
    CASE p = "idle" -> 0
      [] p = "plan" -> 1
      [] p \in {"root", "level", "xdir", "tile"} -> 2
      [] p \in {"done", "crashed"} -> 3

\* C12: while its thread is alive a run never goes back to an earlier phase and
\* reaches DONE only from the walk; a job is submitted only during the walk,
\* when the rectangles of all levels and the grand total have been computed
\* and logged; and no job is submitted once the run is DONE.
C12_PhasesInOrder ==
    /\ [][Running => Phase(pc') >= Phase(pc)]_vars
    /\ [][(pc' = "done" /\ pc # "done") => pc = "level"]_vars
    /\ [][(Len(delayed') > Len(delayed)) =>
            /\ Phase(pc) = 2 /\ Phase(pc') = 2
            /\ plan = PlanLines(box, ls, ln)
            /\ total = SumS(plan)]_vars
    /\ [][pc = "done" =>
            \A m \in BagToSet(queue') : CopiesIn(m, queue') <= CopiesIn(m, queue)]_vars

\* a run over two zoom levels is done, its plan has both and it submitted two jobs
C12_Witness ==
    pc = "done" /\ Len(plan) = 2 /\ total = 2 /\ Len(delayed) = 2

\* ----------------------------------------------------------------- C13
\* the directories above a file_name root/map/zoom/x/y.png
DirsAbove(file_name) == { SubSeq(file_name, 1, n) : n \in 2 .. (Len(file_name) - 1) }

\* C13: when a job is submitted the root, zoom and x directory of its file
\* exist; directories are never removed, so those of every message in the
\* broker and of every execution exist; and a step that finds its directory
\* present leaves the directories as they are and does not end the run.
C13_DirsBeforeJobs ==
    /\ [][(Len(delayed') > Len(delayed)) =>
            /\ {Froot(dir[1]), Flev(dir[1], i), Fx(dir[1], i, j)} \subseteq dirs
            /\ DirsAbove(AtFile) = {Froot(dir[1]), Flev(dir[1], i), Fx(dir[1], i, j)}]_vars
    /\ [](\A m \in BagToSet(queue) \cup BagToSet(running) : DirsAbove(m) \subseteq dirs)
    /\ [][dirs \subseteq dirs']_vars
    /\ [][(pc = "root" /\ dir # <<>> /\ Froot(dir[1]) \in dirs)
            => (pc' # "crashed" /\ dirs' = dirs)]_vars
    /\ [][(pc = "level" /\ i <= ln /\ Flev(dir[1], i) \in dirs)
            => (pc' # "crashed" /\ dirs' = dirs)]_vars
    /\ [][(pc = "xdir" /\ j <= xe /\ Fx(dir[1], i, j) \in dirs)
            => (pc' # "crashed" /\ dirs' = dirs)]_vars

\* a second run found the directories the first run made and submitted a job
C13_Witness ==
    /\ run = 2 /\ notices = 1 /\ pc = "tile" /\ Len(delayed) > 0
    /\ DirsAbove(delayed[1]) \subseteq dirs

\* ----------------------------------------------------------------- C14
\* C14 as stated: once os.mkdir has failed the run submits no job and emits no
\* completion notice, and the run has stopped with a message that explains
\* the failure as the last line logged.
C14_AbortWithMessage ==
    /\ [][pc = "crashed" =>
            (Len(delayed') <= Len(delayed) /\ notices' = notices)]_vars
    /\ []((pc = "crashed" /\ error = "OSError") => lastLog = "error")

=============================================================================
